---------------------------- MODULE Spec2Model ----------------------------
(***************************************************************************)
(* A model of app/core/subtitle_processor/spliter.py: the re-segmentation  *)
(* of time-stamped ASR fragments along sentences supplied by an external   *)
(* sentence splitter.                                                      *)
(*                                                                         *)
(* A text is a sequence of characters.  A character is a one-element       *)
(* string; the token "han" stands for one CJK ideograph (U+4E2D), which    *)
(* the module language cannot write literally.  Times are integers (ms).   *)
(* A fragment (ASRDataSeg) is a record [text, start_time, end_time].       *)
(***************************************************************************)
EXTENDS Integers, Sequences, FiniteSets, TLC

VARIABLES
    ctg_segments,   \* check_time_gaps: argument segments
    ctg_max_gap,    \* check_time_gaps: argument max_gap
    ctg_result,     \* check_time_gaps: returned list of groups
    ctg_pc,         \* "idle" | "call" | "done"
    sls_stack,      \* split_long_segment: the calls not yet returned, innermost last
    sls_result,     \* split_long_segment: fragments emitted so far
    sls_last,       \* split_long_segment: [n, split_index] of the latest recursive case
    sls_pc,         \* "idle" | "run" | "done" | "RecursionError" | "IndexError"
    opt_input,      \* optimize_subtitles: the fragments as passed in
    opt_segments,   \* optimize_subtitles: asr_data.segments, mutated in place
    opt_i,          \* optimize_subtitles: the loop index i (0 when the loop is over)
    opt_pc,         \* "idle" | "loop" | "done"
    al_segments,    \* merge_segments_based_on_sentences: asr_data.segments
    al_sentences,   \* merge_segments_based_on_sentences: sentences
    al_k,           \* number of sentences the loop has taken
    al_state,       \* the loop's variables: asr_index, max_shift, end_seg_index
                    \* (end_bound: whether it was ever assigned), new_segments,
                    \* status ("ok" or the error raised)
    al_log,         \* per sentence taken: what the search found and did
    al_pc,          \* "idle" | "loop" | "done" | "raised"
    sad_segments,   \* split_asr_data: asr_data.segments
    sad_num,        \* split_asr_data: num_segments
    sad_result,     \* split_asr_data: the returned chunks
    sad_pc,         \* "idle" | "call" | "done"
    mg_input,       \* merge_segments: asr_data.segments as passed in
    mg_num_threads, \* merge_segments: num_threads
    mg_segments,    \* asr_data.segments after the preprocessing of lines 324-331
    mg_chunks,      \* asr_data_segments (line 342)
    mg_futures,     \* one future per chunk, in chunk order: state ("queued",
                    \* "running", "done", "failed", "cancelled") and result
    mg_overtaken,   \* TRUE once a call has ended before the call of an earlier chunk
    mg_llm_calls,   \* number of split_by_llm calls started
    mg_all_sentences, \* all_sentences as passed to the aligner
    mg_aligner_calls, \* number of merge_segments_based_on_sentences calls
    mg_output,      \* the returned fragments
    mg_pc           \* "idle" | "start" | "dispatch" | "shutdown" | "returned" | "raised"

ctg_vars == <<ctg_segments, ctg_max_gap, ctg_result, ctg_pc>>
sls_vars == <<sls_stack, sls_result, sls_last, sls_pc>>
opt_vars == <<opt_input, opt_segments, opt_i, opt_pc>>
al_vars == <<al_segments, al_sentences, al_k, al_state, al_log, al_pc>>
sad_vars == <<sad_segments, sad_num, sad_result, sad_pc>>
mg_vars == <<mg_input, mg_num_threads, mg_segments, mg_chunks, mg_futures,
             mg_overtaken, mg_llm_calls, mg_all_sentences, mg_aligner_calls,
             mg_output, mg_pc>>

vars == <<ctg_vars, sls_vars, opt_vars, al_vars, sad_vars, mg_vars>>

-----------------------------------------------------------------------------
(* Program constants (spliter.py lines 13-16).                              *)

SEGMENT_THRESHOLD == 500
FIXED_NUM_THREADS == 4
SPLIT_RANGE == 30
MAX_GAP == 1500

-----------------------------------------------------------------------------
(* The state of a function that is not under study in a specification.     *)

IdleGaps ==
    /\ ctg_segments = << >>
    /\ ctg_max_gap = MAX_GAP
    /\ ctg_result = << >>
    /\ ctg_pc = "idle"

IdleSplit ==
    /\ sls_stack = << >>
    /\ sls_result = << >>
    /\ sls_last = [n |-> 0, split_index |-> 0]
    /\ sls_pc = "idle"

IdleOpt ==
    /\ opt_input = << >>
    /\ opt_segments = << >>
    /\ opt_i = 0
    /\ opt_pc = "idle"

IdleAlign ==
    /\ al_segments = << >>
    /\ al_sentences = << >>
    /\ al_k = 0
    /\ al_state = [asr_index |-> 0, max_shift |-> 0, end_bound |-> FALSE,
                   end_seg_index |-> 0, new_segments |-> << >>, status |-> "ok"]
    /\ al_log = << >>
    /\ al_pc = "idle"

IdleChunk ==
    /\ sad_segments = << >>
    /\ sad_num = 1
    /\ sad_result = << >>
    /\ sad_pc = "idle"

IdleMerge ==
    /\ mg_input = << >>
    /\ mg_num_threads = FIXED_NUM_THREADS
    /\ mg_segments = << >>
    /\ mg_chunks = << >>
    /\ mg_futures = << >>
    /\ mg_overtaken = FALSE
    /\ mg_llm_calls = 0
    /\ mg_all_sentences = << >>
    /\ mg_aligner_calls = 0
    /\ mg_output = << >>
    /\ mg_pc = "idle"

-----------------------------------------------------------------------------
(* Small helpers on integers and sequences.                                 *)

Min(a, b) == IF a < b THEN a ELSE b
Max(a, b) == IF a > b THEN a ELSE b
Abs(a) == IF a < 0 THEN -a ELSE a

\* Python's s[lo:hi] for 0 <= lo, on a 1-based sequence: elements lo+1..hi,
\* clipped to the sequence (a slice never raises).
Slice(s, lo, hi) == SubSeq(s, Min(lo, Len(s)) + 1, Min(hi, Len(s)))

\* ''.join(parts[lo..hi]), by halving so that long lists stay shallow.
RECURSIVE JoinRange(_, _, _)
JoinRange(parts, lo, hi) ==
    IF lo > hi THEN << >>
    ELSE IF lo = hi THEN parts[lo]
    ELSE LET mid == (lo + hi) \div 2
         IN  JoinRange(parts, lo, mid) \o JoinRange(parts, mid + 1, hi)

\* ''.join(seg.text for seg in segs)
JoinTexts(segs) == JoinRange([i \in 1..Len(segs) |-> segs[i].text], 1, Len(segs))

\* The concatenation of a list of lists.
Flatten(lists) == JoinRange(lists, 1, Len(lists))

-----------------------------------------------------------------------------
(* Characters and the text functions.                                       *)

IsSpace(c) == c \in {" ", "\n"}
IsCJK(c) == c = "han"
IsAsciiLetter(c) == c \in {"a", "b", "w", "z", "A", "B"}
\* re \w: letters, digits, underscore, and the ideographs
IsWordChar(c) == IsAsciiLetter(c) \/ IsCJK(c)

\* str.lower() on one character
LowerChar(c) == IF c = "A" THEN "a" ELSE IF c = "B" THEN "b" ELSE c

Lower(s) == [i \in 1..Len(s) |-> LowerChar(s[i])]

\* str.strip(): drop leading and trailing whitespace
Strip(s) ==
    LET keep == {i \in 1..Len(s) : ~IsSpace(s[i])}
    IN  IF keep = {} THEN << >>
        ELSE LET lo == CHOOSE i \in keep : \A j \in keep : i <= j
                 hi == CHOOSE i \in keep : \A j \in keep : i >= j
             IN  SubSeq(s, lo, hi)

\* is_pure_punctuation: no \w character anywhere
is_pure_punctuation(s) == ~ \E i \in 1..Len(s) : IsWordChar(s[i])

\* count_words: every character of the listed scripts counts one and is
\* replaced by a space; the rest is split on whitespace and each token
\* counts one.
count_words(text) ==
    LET non_english_chars == Cardinality({i \in 1..Len(text) : IsCJK(text[i])})
        remaining == [i \in 1..Len(text) |->
                         IF IsCJK(text[i]) THEN " " ELSE text[i]]
        english_words ==
            Cardinality({i \in 1..Len(remaining) :
                            /\ ~IsSpace(remaining[i])
                            /\ (i = 1 \/ IsSpace(remaining[i - 1]))})
    IN  non_english_chars + english_words

\* preprocess_text: ' '.join(s.lower().split()).  A whitespace character is
\* kept, as one space, exactly when it closes a token that is followed by
\* another token.
preprocess_text(s) ==
    LET l == Lower(s)
        n == Len(l)
        tagged == [i \in 1..n |->
                     [c |-> IF IsSpace(l[i]) THEN " " ELSE l[i],
                      keep |-> \/ ~IsSpace(l[i])
                               \/ /\ i > 1
                                  /\ ~IsSpace(l[i - 1])
                                  /\ \E j \in (i + 1)..n : ~IsSpace(l[j])]]
        kept == SelectSeq(tagged, LAMBDA r : r.keep)
    IN  [i \in 1..Len(kept) |-> kept[i].c]

-----------------------------------------------------------------------------
(* Fragments.                                                               *)

Seg(text, start_time, end_time) ==
    [text |-> text, start_time |-> start_time, end_time |-> end_time]

\* A fragment list from per-fragment texts and the gaps between neighbours:
\* the first fragment starts at 0, every fragment lasts 100 ms.
RECURSIVE BuildSegs(_, _)
BuildSegs(texts, gaps) ==
    IF Len(texts) = 0 THEN << >>
    ELSE IF Len(texts) = 1 THEN << Seg(texts[1], 0, 100) >>
    ELSE LET n == Len(texts)
             before == BuildSegs(SubSeq(texts, 1, n - 1), SubSeq(gaps, 1, n - 2))
             st == before[n - 1].end_time + gaps[n - 1]
         IN  Append(before, Seg(texts[n], st, st + 100))

\* All sequences over S of length 0..n
SeqsUpTo(S, n) == UNION {[1..k -> S] : k \in 0..n}

-----------------------------------------------------------------------------
(* check_time_gaps (lines 158-184).                                         *)

\* The loop of lines 173-179 after fragments 1..i (1-based) were visited:
\* <<result, current_group>>.
RECURSIVE CtgLoop(_, _, _)
CtgLoop(segments, max_gap, i) ==
    IF i = 1 THEN << << >>, << segments[1] >> >>
    ELSE LET prev == CtgLoop(segments, max_gap, i - 1)
             time_gap == segments[i].start_time - segments[i - 1].end_time
         IN  IF time_gap > max_gap
             THEN << Append(prev[1], prev[2]), << segments[i] >> >>
             ELSE << prev[1], Append(prev[2], segments[i]) >>

\* A check_time_gaps that forgets the group still open when the loop ends.
CtgDropLast(segments, max_gap) ==
    IF Len(segments) = 0 THEN << >>
    ELSE CtgLoop(segments, max_gap, Len(segments))[1]

\* A check_time_gaps that never starts a new group.
CtgNoSplit(segments, max_gap) ==
    IF Len(segments) = 0 THEN << >> ELSE << segments >>

check_time_gaps(segments, max_gap) ==
    IF Len(segments) = 0 THEN << >>
    ELSE LET end == CtgLoop(segments, max_gap, Len(segments))
         IN  IF Len(end[2]) > 0 THEN Append(end[1], end[2]) ELSE end[1]

-----------------------------------------------------------------------------
(* split_long_segment (lines 187-233).                                      *)

\* The maximum words of one subtitle line.  spliter.py imports it from
\* split_by_llm (line 7); the model takes a small value so that short texts
\* exceed it.
MAX_WORD_COUNT == 2

\* The depth at which the interpreter gives up a recursion (RecursionError).
RecursionLimit == 6

\* Line 196: the base case
SlsIsBase(merged_text, segs_to_merge) ==
    count_words(merged_text) <= MAX_WORD_COUNT \/ Len(segs_to_merge) = 1

\* Lines 197-201: the fragment of the base case
SlsBaseSeg(merged_text, segs_to_merge) ==
    Seg(Strip(merged_text),
        segs_to_merge[1].start_time,
        segs_to_merge[Len(segs_to_merge)].end_time)

\* gap after the fragment of Python index i
SlsGap(segs_to_merge, i) ==
    segs_to_merge[i + 2].start_time - segs_to_merge[i + 1].end_time

\* Lines 206-221: split_index (a Python index) of a list of n >= 2 fragments
SlsSplitIndex(segs_to_merge) ==
    LET n == Len(segs_to_merge)
        all_equal == \A i \in 0..(n - 2) :
                        SlsGap(segs_to_merge, i) = SlsGap(segs_to_merge, 0)
        start_idx == n \div 6
        end_idx == (5 * n) \div 6
        range == start_idx..(end_idx - 1)
    IN  IF all_equal THEN n \div 2
        ELSE IF range = {} THEN n \div 2
        ELSE CHOOSE i \in range :
                \A j \in range :
                    \/ SlsGap(segs_to_merge, j) < SlsGap(segs_to_merge, i)
                    \/ (SlsGap(segs_to_merge, j) = SlsGap(segs_to_merge, i) /\ i <= j)

\* Lines 223-224
SlsFirst(segs_to_merge) == Slice(segs_to_merge, 0, SlsSplitIndex(segs_to_merge) + 1)
SlsSecond(segs_to_merge) ==
    Slice(segs_to_merge, SlsSplitIndex(segs_to_merge) + 1, Len(segs_to_merge))

\* split_long_segment as a function: [status, segs], status "ok" or the error
\* raised.  depth is the number of calls already active.
RECURSIVE SlsRun(_, _, _)
SlsRun(merged_text, segs_to_merge, depth) ==
    IF depth >= RecursionLimit THEN [status |-> "RecursionError", segs |-> << >>]
    ELSE IF SlsIsBase(merged_text, segs_to_merge)
    THEN IF Len(segs_to_merge) = 0
         THEN [status |-> "IndexError", segs |-> << >>]
         ELSE [status |-> "ok", segs |-> << SlsBaseSeg(merged_text, segs_to_merge) >>]
    ELSE LET first_segs == SlsFirst(segs_to_merge)
             second_segs == SlsSecond(segs_to_merge)
             r1 == SlsRun(JoinTexts(first_segs), first_segs, depth + 1)
         IN  IF r1.status # "ok" THEN r1
             ELSE LET r2 == SlsRun(JoinTexts(second_segs), second_segs, depth + 1)
                  IN  IF r2.status # "ok" THEN r2
                      ELSE [status |-> "ok", segs |-> r1.segs \o r2.segs]

split_long_segment(merged_text, segs_to_merge) == SlsRun(merged_text, segs_to_merge, 0)

-----------------------------------------------------------------------------
(* Specification SpecSplit: split_long_segment, one call per step.          *)

MaxSplitSegs == 4
SplitTexts == { <<"a", " ">>, <<"a", " ", "b", " ">> }
SplitGaps == {0, 100, 200}

SplitInputs ==
    {BuildSegs(t, g) : <<t, g>> \in
        UNION {[1..k -> SplitTexts] \X [1..(k - 1) -> SplitGaps] : k \in 1..MaxSplitSegs}}

Frame(text, segs, depth) == [text |-> text, segs |-> segs, depth |-> depth]

InitSplit ==
    /\ IdleMerge
    /\ IdleChunk
    /\ IdleGaps
    /\ IdleOpt
    /\ IdleAlign
    /\ \E segs \in SplitInputs : sls_stack = << Frame(JoinTexts(segs), segs, 0) >>
    /\ sls_result = << >>
    /\ sls_last = [n |-> 0, split_index |-> 0]
    /\ sls_pc = "run"

SlsTop == sls_stack[Len(sls_stack)]
SlsPopped == SubSeq(sls_stack, 1, Len(sls_stack) - 1)

\* A call that takes the base case (lines 196-203) and returns.
SlsBaseCall ==
    /\ sls_pc = "run"
    /\ Len(sls_stack) > 0
    /\ SlsTop.depth < RecursionLimit
    /\ SlsIsBase(SlsTop.text, SlsTop.segs)
    /\ IF Len(SlsTop.segs) = 0
       THEN /\ sls_pc' = "IndexError"
            /\ UNCHANGED <<sls_stack, sls_result>>
       ELSE /\ sls_result' = Append(sls_result, SlsBaseSeg(SlsTop.text, SlsTop.segs))
            /\ sls_stack' = SlsPopped
            /\ sls_pc' = IF Len(SlsPopped) = 0 THEN "done" ELSE "run"
    /\ UNCHANGED sls_last
    /\ UNCHANGED <<ctg_vars, opt_vars, al_vars, sad_vars, mg_vars>>

\* A call that takes the recursive case (lines 206-231): it calls itself on
\* the first part, then on the second.
SlsRecursiveCall ==
    /\ sls_pc = "run"
    /\ Len(sls_stack) > 0
    /\ SlsTop.depth < RecursionLimit
    /\ ~SlsIsBase(SlsTop.text, SlsTop.segs)
    /\ LET first_segs == SlsFirst(SlsTop.segs)
           second_segs == SlsSecond(SlsTop.segs)
       IN  sls_stack' = SlsPopped \o
              << Frame(JoinTexts(second_segs), second_segs, SlsTop.depth + 1),
                 Frame(JoinTexts(first_segs), first_segs, SlsTop.depth + 1) >>
    /\ sls_last' = [n |-> Len(SlsTop.segs), split_index |-> SlsSplitIndex(SlsTop.segs)]
    /\ UNCHANGED <<sls_result, sls_pc>>
    /\ UNCHANGED <<ctg_vars, opt_vars, al_vars, sad_vars, mg_vars>>

\* A call deeper than the interpreter allows.
SlsTooDeep ==
    /\ sls_pc = "run"
    /\ Len(sls_stack) > 0
    /\ SlsTop.depth >= RecursionLimit
    /\ sls_pc' = "RecursionError"
    /\ UNCHANGED <<sls_stack, sls_result, sls_last>>
    /\ UNCHANGED <<ctg_vars, opt_vars, al_vars, sad_vars, mg_vars>>

NextSplit == SlsBaseCall \/ SlsRecursiveCall \/ SlsTooDeep

SpecSplit == InitSplit /\ [][NextSplit]_vars

\* C2: split_long_segment terminates without error on every input of at
\* least one fragment: whenever it recurses on n >= 2 fragments the split
\* index is within 0..n-2, so that both parts are non-empty and shorter.
C2_SplitIndexInRange ==
    /\ sls_pc \notin {"RecursionError", "IndexError"}
    /\ (sls_last.n >= 2 => (0 <= sls_last.split_index /\ sls_last.split_index <= sls_last.n - 2))

-----------------------------------------------------------------------------
(* difflib.SequenceMatcher(None, a, b).ratio() (line 113).                  *)

\* The length of the longest common run starting at a[i], b[j] (Python
\* indices), within a[..ahi), b[..bhi).
RECURSIVE RunLen(_, _, _, _, _, _)
RunLen(a, b, i, j, ahi, bhi) ==
    IF i < ahi /\ j < bhi /\ a[i + 1] = b[j + 1]
    THEN 1 + RunLen(a, b, i + 1, j + 1, ahi, bhi)
    ELSE 0

\* The number of matched characters: the longest matching block of
\* a[alo..ahi), b[blo..bhi) (the earliest in a, then the earliest in b), plus
\* the same to its left and to its right.
RECURSIVE MatchCount(_, _, _, _, _, _)
MatchCount(a, b, alo, ahi, blo, bhi) ==
    IF alo >= ahi \/ blo >= bhi THEN 0
    ELSE
      LET runs == {<<RunLen(a, b, i, j, ahi, bhi), i, j>> :
                      i \in alo..(ahi - 1), j \in blo..(bhi - 1)}
          best == CHOOSE r \in runs :
                     \A q \in runs :
                        \/ r[1] > q[1]
                        \/ r[1] = q[1] /\ r[2] < q[2]
                        \/ r[1] = q[1] /\ r[2] = q[2] /\ r[3] <= q[3]
          k == best[1]
          besti == best[2]
          bestj == best[3]
      IN  IF k = 0 THEN 0
          ELSE k + MatchCount(a, b, alo, besti, blo, bestj)
                 + MatchCount(a, b, besti + k, ahi, bestj + k, bhi)

\* ratio() as the fraction num/den: 2.0 * matches / (len(a) + len(b)), and
\* 1.0 when both are empty.
Ratio(a, b) ==
    IF Len(a) + Len(b) = 0 THEN [num |-> 1, den |-> 1]
    ELSE [num |-> 2 * MatchCount(a, b, 0, Len(a), 0, Len(b)), den |-> Len(a) + Len(b)]

RatioGreater(r1, r2) == r1.num * r2.den > r2.num * r1.den
RatioIsOne(r) == r.num = r.den
\* ratio >= 0.5
RatioAtLeastHalf(r) == 2 * r.num >= r.den

-----------------------------------------------------------------------------
(* merge_segments_based_on_sentences (lines 77-155).                        *)

\* Lines 103-104: the window sizes tried
AlMaxWindow(word_count, asr_len, asr_index) == Min(word_count * 2, asr_len - asr_index)
AlMinWindow(word_count) == Max(1, word_count \div 2)

\* A search that stops one start short of the last window position
AlMaxStartShort(asr_index, max_shift, asr_len, window_size) ==
    Min(asr_index + max_shift, asr_len - window_size)

\* Line 109: one past the last start tried for a window size
AlMaxStart(asr_index, max_shift, asr_len, window_size) ==
    Min(asr_index + max_shift + 1, asr_len - window_size + 1)

\* Lines 111-112: the normalized text of the window [start, start + size)
AlWindowText(segments, start, window_size) ==
    preprocess_text(JoinTexts(Slice(segments, start, start + window_size)))

\* Lines 105-124: the search.  Windows are tried by size, the sizes nearest
\* to word_count first (of two equally near, the smaller), and for each size
\* by start; a window replaces the best only with a strictly greater ratio,
\* and the search stops at the first ratio of 1.0: the result is the first
\* window, in that order, of the greatest ratio, if that ratio is above 0.
AlSearch(segments, asr_index, max_shift, sentence) ==
    LET asr_len == Len(segments)
        sentence_proc == preprocess_text(sentence)
        word_count == count_words(sentence_proc)
        sizes == AlMinWindow(word_count)..AlMaxWindow(word_count, asr_len, asr_index)
        tried == {[window_size |-> c[1], start |-> c[2],
                   ratio |-> Ratio(sentence_proc, AlWindowText(segments, c[2], c[1]))] :
                     c \in {c \in sizes \X (0..asr_len) :
                              /\ c[2] >= asr_index
                              /\ c[2] < AlMaxStart(asr_index, max_shift, asr_len, c[1])}}
        Before(c, d) ==
            LET kc == Abs(c.window_size - word_count)
                kd == Abs(d.window_size - word_count)
            IN  \/ kc < kd
                \/ kc = kd /\ c.window_size < d.window_size
                \/ c.window_size = d.window_size /\ c.start <= d.start
        top == {c \in tried : \A d \in tried : ~RatioGreater(d.ratio, c.ratio)}
        none == [best_ratio |-> [num |-> 0, den |-> 1], found |-> FALSE,
                 best_pos |-> 0, best_window_size |-> 0]
    IN  IF tried = {} THEN none
        ELSE LET best == CHOOSE c \in top : \A d \in top : Before(c, d)
             IN  IF best.ratio.num = 0 THEN none
                 ELSE [best_ratio |-> best.ratio, found |-> TRUE,
                       best_pos |-> best.start, best_window_size |-> best.window_size]

\* Lines 134-147 for the groups k..: the fragments emitted, or the error of
\* split_long_segment.
RECURSIVE AlEmitGroups(_, _)
AlEmitGroups(seg_groups, k) ==
    IF k > Len(seg_groups) THEN [status |-> "ok", segs |-> << >>]
    ELSE
      LET group == seg_groups[k]
          merged_text == JoinTexts(group)
          merged_seg == Seg(merged_text, group[1].start_time, group[Len(group)].end_time)
          here == IF count_words(merged_text) > MAX_WORD_COUNT
                  THEN split_long_segment(merged_text, group)
                  ELSE [status |-> "ok", segs |-> << merged_seg >>]
      IN  IF here.status # "ok" THEN here
          ELSE LET rest == AlEmitGroups(seg_groups, k + 1)
               IN  IF rest.status # "ok" THEN rest
                   ELSE [status |-> "ok", segs |-> here.segs \o rest.segs]

\* An accepted branch that leaves the cursor on the last fragment of the
\* window instead of one past it.
AlAcceptStay(st, segments, found) ==
    LET start_seg_index == found.best_pos
        end_seg_index == found.best_pos + found.best_window_size - 1
        segs_to_merge == Slice(segments, start_seg_index, end_seg_index + 1)
        out == AlEmitGroups(check_time_gaps(segs_to_merge, MAX_GAP), 1)
    IN  IF out.status # "ok"
        THEN [st EXCEPT !.status = out.status, !.end_bound = TRUE,
                        !.end_seg_index = end_seg_index]
        ELSE [st EXCEPT !.new_segments = @ \o out.segs,
                        !.max_shift = 30, !.end_bound = TRUE,
                        !.end_seg_index = end_seg_index,
                        !.asr_index = end_seg_index]

\* Lines 127-149: the accepted branch
AlAccept(st, segments, found) ==
    LET start_seg_index == found.best_pos
        end_seg_index == found.best_pos + found.best_window_size - 1
        segs_to_merge == Slice(segments, start_seg_index, end_seg_index + 1)
        out == AlEmitGroups(check_time_gaps(segs_to_merge, MAX_GAP), 1)
    IN  IF out.status # "ok"
        THEN [st EXCEPT !.status = out.status, !.end_bound = TRUE,
                        !.end_seg_index = end_seg_index]
        ELSE [st EXCEPT !.new_segments = @ \o out.segs,
                        !.max_shift = 30, !.end_bound = TRUE,
                        !.end_seg_index = end_seg_index,
                        !.asr_index = end_seg_index + 1]

\* Lines 150-153: the unmatched branch.  end_seg_index is read; it is
\* assigned only by the accepted branch.
AlReject(st) ==
    IF ~st.end_bound THEN [st EXCEPT !.status = "UnboundLocalError", !.max_shift = 100]
    ELSE [st EXCEPT !.max_shift = 100, !.asr_index = st.end_seg_index + 1]

\* Line 126: the decision on what the search found
AlDecide(st, segments, found) ==
    IF RatioAtLeastHalf(found.best_ratio) /\ found.found
    THEN AlAccept(st, segments, found)
    ELSE AlReject(st)

\* Lines 96-153: the loop body for one sentence
AlStep(st, segments, sentence) ==
    AlDecide(st, segments, AlSearch(segments, st.asr_index, st.max_shift, sentence))

\* What the loop body found and did for one sentence (not program state)
AlLogEntry(st, found, after) ==
    [before |-> st.asr_index, after |-> after.asr_index,
     shift |-> st.max_shift, shift_after |-> after.max_shift,
     accepted |-> RatioAtLeastHalf(found.best_ratio) /\ found.found,
     found |-> found.found, ratio |-> found.best_ratio,
     pos |-> found.best_pos, size |-> found.best_window_size,
     out_from |-> Len(st.new_segments), out_to |-> Len(after.new_segments),
     status |-> after.status]

AlInitState ==
    [asr_index |-> 0, max_shift |-> 30, end_bound |-> FALSE, end_seg_index |-> 0,
     new_segments |-> << >>, status |-> "ok"]

\* The whole function: the loop state after the sentences k.., stopping at
\* an error.
RECURSIVE AlRun(_, _, _, _)
AlRun(st, segments, sentences, k) ==
    IF k > Len(sentences) \/ st.status # "ok" THEN st
    ELSE AlRun(AlStep(st, segments, sentences[k]), segments, sentences, k + 1)

merge_segments_based_on_sentences(segments, sentences) ==
    AlRun(AlInitState, segments, sentences, 1)

-----------------------------------------------------------------------------
(* optimize_subtitles (lines 286-308).                                      *)

\* ASRData.merge_with_next_segment(index): the fragment at Python index
\* `index` and its successor are replaced, in place, by one fragment with
\* the two texts concatenated, the first's start and the second's end.
merge_with_next_segment(segments, index) ==
    LET a == segments[index + 1]
        b == segments[index + 2]
    IN  SubSeq(segments, 1, index)
          \o << Seg(a.text \o b.text, a.start_time, b.end_time) >>
          \o SubSeq(segments, index + 3, Len(segments))

\* The docstring's condition: the current fragment has at most 3 words.
OptShouldMergeDoc(current_seg, prev_seg) ==
    LET time_gap == Abs(current_seg.start_time - prev_seg.end_time)
        current_words == count_words(current_seg.text)
        total_words == current_words + count_words(prev_seg.text)
    IN  time_gap < 300 /\ current_words <= 3 /\ total_words <= 12

\* Lines 302-306: the merge condition
OptShouldMerge(current_seg, prev_seg) ==
    LET time_gap == Abs(current_seg.start_time - prev_seg.end_time)
        current_words == count_words(current_seg.text)
        total_words == current_words + count_words(prev_seg.text)
    IN  time_gap < 300 /\ current_words < 5 /\ total_words <= 12

\* Lines 295-307: one iteration of the loop, at Python index i
OptIter(segments, i) ==
    IF OptShouldMerge(segments[i + 1], segments[i])
    THEN merge_with_next_segment(segments, i - 1)
    ELSE segments

\* Lines 294-308: the iterations i, i-1, ..., 1
RECURSIVE OptLoop(_, _)
OptLoop(segments, i) ==
    IF i < 1 THEN segments ELSE OptLoop(OptIter(segments, i), i - 1)

optimize_subtitles(segments) == OptLoop(segments, Len(segments) - 1)

-----------------------------------------------------------------------------
(* Specification SpecOpt: optimize_subtitles, one loop iteration per step.  *)

MaxOptSegs == 3
OptTexts == { <<"a", " ">>, <<"a", " ", "b", " ">>, <<"a", " ", "b", " ", "a", " ">>,
              <<"a", " ", "b", " ", "a", " ", "b", " ">>, <<"han">> }
OptGaps == {-50, 0, 299, 300}

OptInputs ==
    {BuildSegs(t, g) : <<t, g>> \in
        UNION {[1..k -> OptTexts] \X [1..(k - 1) -> OptGaps] : k \in 1..MaxOptSegs}}
    \cup {<< >>}

InitOpt ==
    /\ IdleMerge
    /\ IdleChunk
    /\ IdleGaps
    /\ IdleSplit
    /\ IdleAlign
    /\ opt_input \in OptInputs
    /\ opt_segments = opt_input
    /\ opt_i = Max(Len(opt_input) - 1, 0)
    /\ opt_pc = "loop"

OptStep ==
    /\ opt_pc = "loop"
    /\ opt_i >= 1
    /\ opt_segments' = OptIter(opt_segments, opt_i)
    /\ opt_i' = opt_i - 1
    /\ UNCHANGED <<opt_input, opt_pc>>
    /\ UNCHANGED <<ctg_vars, sls_vars, al_vars, sad_vars, mg_vars>>

OptReturn ==
    /\ opt_pc = "loop"
    /\ opt_i = 0
    /\ opt_pc' = "done"
    /\ UNCHANGED <<opt_input, opt_segments, opt_i>>
    /\ UNCHANGED <<ctg_vars, sls_vars, al_vars, sad_vars, mg_vars>>

NextOpt == OptStep \/ OptReturn

SpecOpt == InitOpt /\ [][NextOpt]_vars

OptWords(k) == count_words(opt_input[k].text)
OptGapAfter(k) == opt_input[k + 1].start_time - opt_input[k].end_time

\* The three fragments collapsed into one
OptCollapsed ==
    opt_segments = << Seg(opt_input[1].text \o opt_input[2].text \o opt_input[3].text,
                          opt_input[1].start_time, opt_input[3].end_time) >>

-----------------------------------------------------------------------------
(* Specification SpecAlign: merge_segments_based_on_sentences, one sentence *)
(* per step.                                                                *)

MaxAlignSegs == 3
MaxSentences == 2
AlignTexts == { <<"A">>, <<"b", " ">>, <<"a", " ", "b", " ">> }
AlignGaps == {0, MAX_GAP + 1}
AlignSentences == { <<"a", " ", "b">>, <<"A">>, <<"a", "a", "a">>, <<"z", "z">>,
                    <<"a", " ", "b", " ", "a">> }

AlignInputs ==
    {BuildSegs(t, g) : <<t, g>> \in
        UNION {[1..k -> AlignTexts] \X [1..(k - 1) -> AlignGaps] : k \in 1..MaxAlignSegs}}
    \cup {<< >>}

InitAlign ==
    /\ IdleMerge
    /\ IdleChunk
    /\ IdleGaps
    /\ IdleSplit
    /\ IdleOpt
    /\ al_segments \in AlignInputs
    /\ al_sentences \in SeqsUpTo(AlignSentences, MaxSentences)
    /\ al_k = 0
    /\ al_state = AlInitState
    /\ al_log = << >>
    /\ al_pc = "loop"

\* One iteration of the loop of line 91
AlignSentence ==
    /\ al_pc = "loop"
    /\ al_k < Len(al_sentences)
    /\ LET sentence == al_sentences[al_k + 1]
           found == AlSearch(al_segments, al_state.asr_index, al_state.max_shift, sentence)
           after == AlDecide(al_state, al_segments, found)
       IN  /\ al_state' = after
           /\ al_log' = Append(al_log, AlLogEntry(al_state, found, after))
           /\ al_pc' = IF after.status = "ok" THEN "loop" ELSE "raised"
    /\ al_k' = al_k + 1
    /\ UNCHANGED <<al_segments, al_sentences>>
    /\ UNCHANGED <<ctg_vars, sls_vars, opt_vars, sad_vars, mg_vars>>

\* Line 155: the loop is over
AlignReturn ==
    /\ al_pc = "loop"
    /\ al_k = Len(al_sentences)
    /\ al_pc' = "done"
    /\ UNCHANGED <<al_segments, al_sentences, al_k, al_state, al_log>>
    /\ UNCHANGED <<ctg_vars, sls_vars, opt_vars, sad_vars, mg_vars>>

NextAlign == AlignSentence \/ AlignReturn

SpecAlign == InitAlign /\ [][NextAlign]_vars

AlN == Len(al_segments)
\* The gap after the fragment of Python index t
AlGap(t) == al_segments[t + 2].start_time - al_segments[t + 1].end_time
\* The fragment range a sentence consumed: the window, when accepted; else
\* the fragments the cursor moved over.
AlConsumed(e) ==
    IF e.accepted THEN e.pos..(e.pos + e.size - 1) ELSE e.before..(e.after - 1)

\* C1 as stated: when every sentence has been processed, the ranges consumed
\* (one per sentence) are pairwise disjoint and their union is 0..n-1.
C1_RangesCoverAll ==
    al_pc = "done" =>
        /\ \A i, j \in 1..Len(al_log) :
              i # j => AlConsumed(al_log[i]) \cap AlConsumed(al_log[j]) = {}
        /\ UNION {AlConsumed(al_log[i]) : i \in 1..Len(al_log)} = 0..(AlN - 1)

\* C1 amended: the windows of the accepted sentences lie within 0..n-1 and
\* follow one another in sentence order without overlap (no fragment is
\* covered twice); fragments before a window or after the last one may be
\* left out.
C1_AcceptedRangesDisjoint ==
    /\ \A i \in 1..Len(al_log) :
          al_log[i].accepted =>
              /\ al_log[i].size >= 1
              /\ 0 <= al_log[i].pos
              /\ al_log[i].pos + al_log[i].size - 1 <= AlN - 1
    /\ \A i, j \in 1..Len(al_log) :
          (i < j /\ al_log[i].accepted /\ al_log[j].accepted)
              => al_log[i].pos + al_log[i].size - 1 < al_log[j].pos

C1_Witness ==
    /\ al_pc = "done"
    /\ Len(al_log) = 2
    /\ al_log[1].accepted /\ al_log[2].accepted
    /\ al_log[1].pos + al_log[1].size = al_log[2].pos
    /\ al_log[1].pos > 0

\* C3: a sentence whose best ratio is below 0.5 (or for which no window was
\* found), the first sentence included, raises no error, emits no fragment
\* and moves the cursor forward, after which the loop goes on.
C3_UnmatchedAdvances ==
    \A i \in 1..Len(al_log) :
        ~al_log[i].accepted =>
            /\ al_log[i].status = "ok"
            /\ al_log[i].out_to = al_log[i].out_from
            /\ al_log[i].after > al_log[i].before

\* Every sentence from the k-th on is the normalized text of a run of
\* fragments, the runs in fragment order, the first starting at `from` or
\* later.
RECURSIVE AlExactRuns(_, _)
AlExactRuns(k, from) ==
    \/ k > Len(al_sentences)
    \/ \E a \in from..(AlN - 1) : \E b \in a..(AlN - 1) :
          /\ AlWindowText(al_segments, a, b - a + 1) = preprocess_text(al_sentences[k])
          /\ AlExactRuns(k + 1, b + 1)

\* C5 as stated: when every sentence is the normalized text of a run of
\* fragments (in fragment order), every sentence is accepted with ratio 1.0
\* and max_shift is never widened.
C5_ExactRunsAllMatch ==
    AlExactRuns(1, 0) =>
        \A i \in 1..Len(al_log) :
            /\ al_log[i].accepted
            /\ RatioIsOne(al_log[i].ratio)
            /\ al_log[i].shift_after = 30

\* Some window the search tries for the i-th sentence has exactly the
\* sentence's normalized text.
AlExactWindowTried(i) ==
    LET e == al_log[i]
        sentence_proc == preprocess_text(al_sentences[i])
        word_count == count_words(sentence_proc)
    IN  \E size \in AlMinWindow(word_count)..AlMaxWindow(word_count, AlN, e.before) :
          \E start \in e.before..Min(e.before + e.shift, AlN - size) :
             AlWindowText(al_segments, start, size) = sentence_proc

\* C5 amended: a sentence that is the normalized text of a window of size
\* max(1, w//2)..min(2w, remaining) starting at most max_shift after the
\* cursor is accepted with ratio 1.0 (it does not take the unmatched branch).
C5_ExactWindowInRangeMatches ==
    \A i \in 1..Len(al_log) :
        AlExactWindowTried(i) => (al_log[i].accepted /\ RatioIsOne(al_log[i].ratio))

C5_Witness ==
    /\ al_pc = "done"
    /\ Len(al_log) = 2
    /\ AlExactWindowTried(1) /\ AlExactWindowTried(2)
    /\ al_log[2].pos > al_log[2].before
    /\ al_log[2].accepted
    /\ RatioIsOne(al_log[2].ratio)

\* The emitted fragment f is the merge of the fragments lo..hi (Python
\* indices): their texts joined (trimmed when it comes from
\* split_long_segment), the first's start, the last's end.
AlIsMergeOf(f, lo, hi) ==
    LET joined == JoinTexts(Slice(al_segments, lo, hi + 1))
    IN  /\ f.start_time = al_segments[lo + 1].start_time
        /\ f.end_time = al_segments[hi + 1].end_time
        /\ (f.text = joined \/ f.text = Strip(joined))

\* C6: every emitted fragment is the merge of a contiguous run of the
\* accepted window in which every adjacent gap is at most 1500 ms, and an
\* accepted window holding a gap above 1500 ms is emitted as two fragments
\* or more.
C6_NoMergeAcrossLongGap ==
    \A i \in 1..Len(al_log) :
        LET e == al_log[i]
            win == e.pos..(e.pos + e.size - 1)
        IN  (e.accepted /\ e.status = "ok") =>
              /\ \A m \in (e.out_from + 1)..e.out_to :
                    \E lo \in win : \E hi \in win :
                        /\ lo <= hi
                        /\ AlIsMergeOf(al_state.new_segments[m], lo, hi)
                        /\ \A t \in lo..(hi - 1) : AlGap(t) <= MAX_GAP
              /\ (\E t \in e.pos..(e.pos + e.size - 2) : AlGap(t) > MAX_GAP)
                    => e.out_to - e.out_from >= 2

C6_Witness ==
    /\ al_pc = "done"
    /\ \E i \in 1..Len(al_log) :
          /\ al_log[i].accepted
          /\ al_log[i].size = 3
          /\ AlGap(al_log[i].pos) <= MAX_GAP
          /\ AlGap(al_log[i].pos + 1) > MAX_GAP
          /\ al_log[i].out_to - al_log[i].out_from = 2

-----------------------------------------------------------------------------
(* split_asr_data (lines 236-283).                                          *)

\* ASRData.to_txt(): the fragments' texts, one per line.
to_txt(segments) ==
    JoinRange([i \in 1..Len(segments) |->
                  IF i = 1 THEN segments[i].text ELSE <<"\n">> \o segments[i].text],
              1, Len(segments))

\* sorted(list(set(...))) of a set of integers
RECURSIVE SortedSeq(_)
SortedSeq(S) ==
    IF S = {} THEN << >>
    ELSE LET least == CHOOSE x \in S : \A y \in S : x <= y
         IN  << least >> \o SortedSeq(S \ {least})

\* Lines 258-267: the split index found around one target split point: the
\* first index of the greatest gap in range(start, end) if that gap is
\* above -1, else the split point itself.
SadBestIndex(segments, split_point) ==
    LET total_segs == Len(segments)
        start == Max(0, split_point - SPLIT_RANGE)
        end == Min(total_segs - 1, split_point + SPLIT_RANGE)
        Gap(j) == segments[j + 2].start_time - segments[j + 1].end_time
        range == start..(end - 1)
        above == {j \in range : Gap(j) > -1}
    IN  IF above = {} THEN split_point
        ELSE CHOOSE j \in above :
                \A j2 \in above : Gap(j2) < Gap(j) \/ (Gap(j2) = Gap(j) /\ j <= j2)

\* Lines 273-282: the parts cut after the indices k.. of `indices`, the
\* previous part ending before prev_index
RECURSIVE SadParts(_, _, _, _)
SadParts(segments, indices, k, prev_index) ==
    IF k > Len(indices)
    THEN IF prev_index < Len(segments)
         THEN << Slice(segments, prev_index, Len(segments)) >>
         ELSE << >>
    ELSE << Slice(segments, prev_index, indices[k] + 1) >>
            \o SadParts(segments, indices, k + 1, indices[k] + 1)

split_asr_data(segments, num_segments) ==
    LET total_segs == Len(segments)
        total_word_count == count_words(to_txt(segments))
        words_per_segment == total_word_count \div num_segments
    IN  IF num_segments <= 1 \/ total_segs <= num_segments THEN << segments >>
        ELSE LET split_indices == {i * words_per_segment : i \in 1..(num_segments - 1)}
                 adjusted_split_indices ==
                     SortedSeq({SadBestIndex(segments, sp) : sp \in split_indices})
             IN  SadParts(segments, adjusted_split_indices, 1, 0)

-----------------------------------------------------------------------------
(* Specification SpecChunk: split_asr_data applied to bounded inputs.       *)

MaxChunkSegs == 4
MaxNumSegments == 3
PhraseWords == 40
\* A fragment of PhraseWords words (a phrase-level fragment)
Phrase == [i \in 1..(2 * PhraseWords) |-> IF i % 2 = 1 THEN "w" ELSE " "]
ChunkTexts == { <<"w", " ">>, Phrase }
ChunkGaps == {-50, 0, 500}

ChunkInputs ==
    {BuildSegs(t, g) : <<t, g>> \in
        UNION {[1..k -> ChunkTexts] \X [1..(k - 1) -> ChunkGaps] : k \in 1..MaxChunkSegs}}
    \cup {<< >>}

InitChunk ==
    /\ IdleMerge
    /\ IdleGaps
    /\ IdleSplit
    /\ IdleOpt
    /\ IdleAlign
    /\ sad_segments \in ChunkInputs
    /\ sad_num \in 1..MaxNumSegments
    /\ sad_result = << >>
    /\ sad_pc = "call"

SplitAsrDataCall ==
    /\ sad_pc = "call"
    /\ sad_result' = split_asr_data(sad_segments, sad_num)
    /\ sad_pc' = "done"
    /\ UNCHANGED <<sad_segments, sad_num>>
    /\ UNCHANGED <<ctg_vars, sls_vars, opt_vars, al_vars, mg_vars>>

NextChunk == SplitAsrDataCall

SpecChunk == InitChunk /\ [][NextChunk]_vars

\* C10: for num_segments >= 2 smaller than the fragment count, the chunks
\* of split_asr_data partition the sequence: every chunk is non-empty and the
\* chunks concatenated in output order are the input.
C10_ChunksPartitionInput ==
    (sad_pc = "done" /\ sad_num >= 2 /\ sad_num < Len(sad_segments)) =>
        /\ \A k \in 1..Len(sad_result) : Len(sad_result[k]) > 0
        /\ Flatten(sad_result) = sad_segments

-----------------------------------------------------------------------------
(* merge_segments (lines 322-372) and determine_num_segments (311-319).     *)

\* Line 328: re.match(r'^[a-zA-Z\']+$', seg.text.strip())
MgIsPlainWord(text) ==
    LET t == Strip(text)
    IN  Len(t) > 0 /\ \A i \in 1..Len(t) : IsAsciiLetter(t[i]) \/ t[i] = "'"

\* Lines 324-331: punctuation-only fragments are dropped; a fragment that is
\* one plain word is lowercased and gets a trailing space.
MgPreprocess(segments) ==
    LET kept == SelectSeq(segments, LAMBDA seg : ~is_pure_punctuation(seg.text))
    IN  [i \in 1..Len(kept) |->
            IF MgIsPlainWord(kept[i].text)
            THEN [kept[i] EXCEPT !.text = Lower(kept[i].text) \o <<" ">>]
            ELSE kept[i]]

\* to_txt().replace("\n", "") (lines 334, 348)
MgFlatText(segments) == SelectSeq(to_txt(segments), LAMBDA c : c # "\n")

determine_num_segments(word_count, threshold) ==
    LET num_segments == word_count \div threshold
    IN  Max(1, IF word_count % threshold > 0 THEN num_segments + 1 ELSE num_segments)

\* Lines 334-342: the chunks handed to the pool
MgChunks(segments) ==
    split_asr_data(segments,
                   determine_num_segments(count_words(MgFlatText(segments)),
                                          SEGMENT_THRESHOLD))

\* Line 365: list.sort(key=start_time), a stable sort
RECURSIVE SortByStart(_)
SortByStart(segs) ==
    IF Len(segs) = 0 THEN << >>
    ELSE LET rest == SortByStart(Tail(segs))
             head == segs[1]
             k == Cardinality({i \in 1..Len(rest) : rest[i].start_time < head.start_time})
         IN  SubSeq(rest, 1, k) \o << head >> \o SubSeq(rest, k + 1, Len(rest))

\* A wait that ends as soon as one call has returned
MgSomeReturned(futures) ==
    \E i \in 1..Len(futures) : futures[i].state = "done"

\* list(executor.map(...)) has every result: every call has returned
MgAllReturned(futures) ==
    \A i \in 1..Len(futures) : futures[i].state = "done"

\* Lines 354-355: the results in the order of the futures, flattened
MgAllSentences(futures) ==
    Flatten([i \in 1..Len(futures) |-> futures[i].result])

\* Lines 362-369 on the result of the aligner: sort and optimize
MgFinish(aligned) == optimize_subtitles(SortByStart(aligned.new_segments))

-----------------------------------------------------------------------------
(* Specification SpecMerge: merge_segments with its pool of workers.        *)

MaxSmallSegs == 2
MaxChunks == 3
\* The num_threads arguments tried
NumThreadChoices == {1, 2, FIXED_NUM_THREADS}
MergeTexts == { <<",">>, <<"A">>, <<"han">> }
\* What a split_by_llm call may return
LlmResults == { << >>, << <<"w">> >>, << <<"w", " ", "w">>, <<"z">> >> }

\* Word-level recognition output of n words, 50 ms each, 50 ms apart
WordSegs(n) == [i \in 1..n |-> Seg(<<"w">>, (i - 1) * 100, (i - 1) * 100 + 50)]

MergeInputs ==
    {BuildSegs(t, [i \in 1..(Len(t) - 1) |-> 0]) : t \in SeqsUpTo(MergeTexts, MaxSmallSegs)}
    \cup {WordSegs((k - 1) * SEGMENT_THRESHOLD + 1) : k \in 2..MaxChunks}

InitMerge ==
    /\ IdleGaps
    /\ IdleSplit
    /\ IdleOpt
    /\ IdleAlign
    /\ IdleChunk
    /\ mg_input \in MergeInputs
    /\ mg_num_threads \in NumThreadChoices
    /\ mg_segments = << >>
    /\ mg_chunks = << >>
    /\ mg_futures = << >>
    /\ mg_overtaken = FALSE
    /\ mg_llm_calls = 0
    /\ mg_all_sentences = << >>
    /\ mg_aligner_calls = 0
    /\ mg_output = << >>
    /\ mg_pc = "start"

MgOthers == <<ctg_vars, sls_vars, opt_vars, al_vars, sad_vars>>

\* Lines 324-354, up to the submission of one task per chunk
MergeDispatch ==
    /\ mg_pc = "start"
    /\ mg_segments' = MgPreprocess(mg_input)
    /\ mg_chunks' = MgChunks(MgPreprocess(mg_input))
    /\ mg_futures' = [i \in 1..Len(MgChunks(MgPreprocess(mg_input))) |->
                         [state |-> "queued", result |-> << >>]]
    /\ mg_pc' = "dispatch"
    /\ UNCHANGED <<mg_input, mg_num_threads, mg_overtaken, mg_llm_calls,
                   mg_all_sentences, mg_aligner_calls, mg_output>>
    /\ UNCHANGED MgOthers

MgRunning == {i \in 1..Len(mg_futures) : mg_futures[i].state = "running"}
MgQueued == {i \in 1..Len(mg_futures) : mg_futures[i].state = "queued"}

\* A free worker takes the oldest queued task and calls split_by_llm
\* (lines 347-349)
WorkerStart ==
    /\ mg_pc \in {"dispatch", "shutdown"}
    /\ MgQueued # {}
    /\ Cardinality(MgRunning) < mg_num_threads
    /\ LET i == CHOOSE q \in MgQueued : \A q2 \in MgQueued : q <= q2
       IN  mg_futures' = [mg_futures EXCEPT ![i].state = "running"]
    /\ mg_llm_calls' = mg_llm_calls + 1
    /\ UNCHANGED <<mg_input, mg_num_threads, mg_segments, mg_chunks, mg_overtaken,
                   mg_all_sentences, mg_aligner_calls, mg_output, mg_pc>>
    /\ UNCHANGED MgOthers

\* A call of split_by_llm returns its sentences (lines 349-352)
WorkerReturn ==
    /\ mg_pc \in {"dispatch", "shutdown"}
    /\ \E i \in MgRunning : \E r \in LlmResults :
          /\ mg_futures' = [mg_futures EXCEPT ![i] = [state |-> "done", result |-> r]]
          /\ mg_overtaken' = (mg_overtaken \/ \E j \in MgRunning : j < i)
    /\ UNCHANGED <<mg_input, mg_num_threads, mg_segments, mg_chunks, mg_llm_calls,
                   mg_all_sentences, mg_aligner_calls, mg_output, mg_pc>>
    /\ UNCHANGED MgOthers

\* A call of split_by_llm raises
WorkerRaise ==
    /\ mg_pc \in {"dispatch", "shutdown"}
    /\ \E i \in MgRunning :
          /\ mg_futures' = [mg_futures EXCEPT ![i].state = "failed"]
          /\ mg_overtaken' = (mg_overtaken \/ \E j \in MgRunning : j < i)
    /\ UNCHANGED <<mg_input, mg_num_threads, mg_segments, mg_chunks, mg_llm_calls,
                   mg_all_sentences, mg_aligner_calls, mg_output, mg_pc>>
    /\ UNCHANGED MgOthers

\* Lines 354-372: every result is in; flatten, align, sort, optimize
MergeCollect ==
    /\ mg_pc = "dispatch"
    /\ MgAllReturned(mg_futures)
    /\ LET all_sentences == MgAllSentences(mg_futures)
           aligned == merge_segments_based_on_sentences(mg_segments, all_sentences)
       IN  /\ mg_all_sentences' = all_sentences
           /\ IF aligned.status = "ok"
              THEN mg_output' = MgFinish(aligned) /\ mg_pc' = "returned"
              ELSE mg_output' = << >> /\ mg_pc' = "raised"
    /\ mg_aligner_calls' = mg_aligner_calls + 1
    /\ UNCHANGED <<mg_input, mg_num_threads, mg_segments, mg_chunks, mg_futures,
                   mg_overtaken, mg_llm_calls>>
    /\ UNCHANGED MgOthers

\* Line 354: the results are read in chunk order; the first failed call
\* re-raises in the caller, which cancels the tasks still queued
MergeAbort ==
    /\ mg_pc = "dispatch"
    /\ \E k \in 1..Len(mg_futures) :
          /\ mg_futures[k].state = "failed"
          /\ \A i \in 1..(k - 1) : mg_futures[i].state = "done"
    /\ mg_futures' = [i \in 1..Len(mg_futures) |->
                         IF mg_futures[i].state = "queued"
                         THEN [mg_futures[i] EXCEPT !.state = "cancelled"]
                         ELSE mg_futures[i]]
    /\ mg_pc' = "shutdown"
    /\ UNCHANGED <<mg_input, mg_num_threads, mg_segments, mg_chunks, mg_overtaken,
                   mg_llm_calls, mg_all_sentences, mg_aligner_calls, mg_output>>
    /\ UNCHANGED MgOthers

\* Line 346: leaving the with block waits for the running calls; then the
\* exception leaves merge_segments
MergeRaise ==
    /\ mg_pc = "shutdown"
    /\ MgRunning = {}
    /\ mg_pc' = "raised"
    /\ UNCHANGED <<mg_input, mg_num_threads, mg_segments, mg_chunks, mg_futures,
                   mg_overtaken, mg_llm_calls, mg_all_sentences, mg_aligner_calls,
                   mg_output>>
    /\ UNCHANGED MgOthers

NextMerge ==
    \/ MergeDispatch
    \/ WorkerStart
    \/ WorkerReturn
    \/ WorkerRaise
    \/ MergeCollect
    \/ MergeAbort
    \/ MergeRaise

SpecMerge == InitMerge /\ [][NextMerge]_vars

\* C8: whatever the order in which the calls end, the aligner is started
\* only once every chunk's call has returned, and the sentence list it gets
\* is the chunks' sentence lists concatenated in chunk order; no more than
\* num_threads calls run at a time.
C8_SentencesInChunkOrder ==
    /\ Cardinality(MgRunning) <= mg_num_threads
    /\ mg_aligner_calls > 0 =>
          /\ \A i \in 1..Len(mg_futures) : mg_futures[i].state = "done"
          /\ mg_all_sentences = Flatten([i \in 1..Len(mg_chunks) |-> mg_futures[i].result])

C8_Witness ==
    /\ mg_pc = "returned"
    /\ Len(mg_chunks) = 3
    /\ mg_overtaken
    /\ mg_futures[1].result = << <<"w", " ", "w">>, <<"z">> >>
    /\ mg_futures[2].result = << <<"w">> >>
    /\ mg_all_sentences = << <<"w", " ", "w">>, <<"z">>, <<"w">> >>

\* C9: given an empty fragment sequence, or one without any word,
\* merge_segments calls neither split_by_llm nor the aligner and returns
\* its input unchanged.
C9_DegenerateInputUntouched ==
    (Len(mg_input) = 0 \/ count_words(to_txt(mg_input)) = 0) =>
        /\ mg_llm_calls = 0
        /\ mg_aligner_calls = 0
        /\ (mg_pc = "returned" => mg_output = mg_input)
        /\ mg_pc # "raised"

-----------------------------------------------------------------------------
(* Specification SpecGaps: check_time_gaps applied to bounded inputs.       *)

MaxGapSegs == 3
GapChoices == {-50, 0, 100, MAX_GAP, MAX_GAP + 1}
MaxGapArgs == {MAX_GAP, 50}

GapInputs ==
    {BuildSegs([i \in 1..Len(g) + 1 |-> <<"a", " ">>], g) :
        g \in SeqsUpTo(GapChoices, MaxGapSegs - 1)} \cup {<< >>}

InitGaps ==
    /\ IdleMerge
    /\ IdleChunk
    /\ IdleSplit
    /\ IdleOpt
    /\ IdleAlign
    /\ ctg_segments \in GapInputs
    /\ ctg_max_gap \in MaxGapArgs
    /\ ctg_result = << >>
    /\ ctg_pc = "call"

CheckTimeGapsCall ==
    /\ ctg_pc = "call"
    /\ ctg_result' = check_time_gaps(ctg_segments, ctg_max_gap)
    /\ ctg_pc' = "done"
    /\ UNCHANGED <<ctg_segments, ctg_max_gap>>
    /\ UNCHANGED <<sls_vars, opt_vars, al_vars, sad_vars, mg_vars>>

NextGaps == CheckTimeGapsCall

SpecGaps == InitGaps /\ [][NextGaps]_vars

\* C7: check_time_gaps returns groups that partition its input: every group
\* is non-empty, and the groups concatenated in output order are the input
\* list (so each fragment is in exactly one group, contiguously and in
\* order); the empty list yields the empty list and one fragment yields one
\* group of one.
C7_GroupsPartitionInput ==
    ctg_pc = "done" =>
        /\ \A k \in 1..Len(ctg_result) : Len(ctg_result[k]) > 0
        /\ Flatten(ctg_result) = ctg_segments
        /\ (Len(ctg_segments) = 0 => ctg_result = << >>)
        /\ (Len(ctg_segments) = 1 => ctg_result = << ctg_segments >>)

C7_Witness ==
    /\ ctg_pc = "done"
    /\ Len(ctg_segments) = 3
    /\ Len(ctg_result) = 2
    /\ Len(ctg_result[1]) = 2

=============================================================================
